---- MODULE Spec2Model ----
(***************************************************************************)
(* Uroute: a URL dispatcher.  main() parses the command line, builds the  *)
(* orchestrator (configuration + program registry), shows one GTK window, *)
(* runs the event loop and launches the chosen command.                   *)
(*                                                                         *)
(* Python values are modelled as follows:                                  *)
(*   - a str used as a command or a config value is a TLA+ string;         *)
(*   - a text (URL field, clipboard) is a sequence of tokens, '' is <<>>;  *)
(*   - an optional value is a sequence of length 0 (None) or 1 (a value).  *)
(***************************************************************************)
EXTENDS Naturals, Sequences, FiniteSets, TLC

VARIABLES
    file,           \* the config file on disk: None or its sequence of lines
    browsers,       \* webbrowser._browsers, in registration order
    pc,             \* position of main(): start, parsed, core, gui, loop,
                    \* ended, exit
    options,        \* parsed command line: [URL, program]
    cfg,            \* Config (ConfigParser) in memory: section -> option -> value
    programs,       \* Uroute.programs: key -> [name, command]
    command,        \* UrouteGui.command: None or a str
    orig_url,       \* UrouteGui.orig_url: None or a text
    url_entry,      \* text of the URL Gtk.Entry
    command_entry,  \* text of the command Gtk.Entry
    selected,       \* selected item of the icon view: None or a program key
    clean_visible,  \* visibility of the Clean button
    restore_visible,\* visibility of the Restore button
    prompt,         \* default-browser notification: "none", "open", "closed"
    result,         \* what UrouteGui.run returned: None or <<command, url>>
    launched,       \* calls of Uroute.run made by main(): sequence of <<command, url>>
    exit_code,      \* None or the process exit code
    hist,           \* history of the session, read by the properties only
    call            \* the last call made on the Config, read by the properties only

vars == <<file, browsers, pc, options, cfg, programs, command, orig_url,
          url_entry, command_entry, selected, clean_visible, restore_visible,
          prompt, result, launched, exit_code, hist, call>>

-----------------------------------------------------------------------------
(* Optional values *)
None == <<>>
Some(x) == <<x>>
IsNone(o) == o = <<>>
The(o) == o[1]

EmptyMap == [k \in {} |-> ""]
Put(m, k, v) == [x \in (DOMAIN m) \cup {k} |-> IF x = k THEN v ELSE m[x]]

-----------------------------------------------------------------------------
(* Configuration: src/uroute/config.py *)

SectionOrder == <<"main", "program:firefox", "program:firefox-private",
                  "program:chromium", "program:chromium-incognito",
                  "program:chromium-temp">>
OptionOrder == <<"default_program", "ask_default_browser",
                 "read_url_from_clipboard", "name", "command">>

SectionLine(s) == [kind |-> "section", name |-> s, val |-> ""]
OptionLine(k, v) == [kind |-> "option", name |-> k, val |-> v]

\* ConfigParser.write: every section in turn, a header line then its options.
RECURSIVE OptionLines(_, _)
OptionLines(m, i) ==
    IF i > Len(OptionOrder) THEN <<>>
    ELSE (IF OptionOrder[i] \in DOMAIN m
          THEN <<OptionLine(OptionOrder[i], m[OptionOrder[i]])>>
          ELSE <<>>) \o OptionLines(m, i + 1)

RECURSIVE SectionLines(_, _)
SectionLines(c, i) ==
    IF i > Len(SectionOrder) THEN <<>>
    ELSE (IF SectionOrder[i] \in DOMAIN c
          THEN <<SectionLine(SectionOrder[i])>> \o OptionLines(c[SectionOrder[i]], 1)
          ELSE <<>>) \o SectionLines(c, i + 1)

WriteConfig(c) == SectionLines(c, 1)

\* ConfigParser.read: a header opens a section, an option line goes to the open one.
RECURSIVE ParseLines(_, _, _)
ParseLines(lines, cur, acc) ==
    IF lines = <<>> THEN acc
    ELSE LET l == Head(lines) IN
         IF l.kind = "section"
         THEN ParseLines(Tail(lines), l.name,
                         [s \in (DOMAIN acc) \cup {l.name} |->
                             IF s \in DOMAIN acc THEN acc[s] ELSE EmptyMap])
         ELSE ParseLines(Tail(lines), cur,
                         [acc EXCEPT ![cur] = Put(@, l.name, l.val)])

ReadConfig(f) == ParseLines(f, "", EmptyMap)

\* `config[section] = {...}`: add or replace a whole section.
SetSection(c, s, m) == [x \in (DOMAIN c) \cup {s} |-> IF x = s THEN m ELSE c[x]]

FirefoxSections(c) ==
    SetSection(SetSection(c, "program:firefox",
                          Put(Put(EmptyMap, "name", "Firefox"), "command", "firefox")),
               "program:firefox-private",
               Put(Put(EmptyMap, "name", "Firefox Private Window"),
                   "command", "firefox --private-window"))

ChromiumSections(c) ==
    SetSection(SetSection(SetSection(c, "program:chromium",
                   Put(Put(EmptyMap, "name", "Chromium"), "command", "chromium-browser")),
               "program:chromium-incognito",
               Put(Put(EmptyMap, "name", "Chromium Incognito"),
                   "command", "chromium-browser --incognito")),
               "program:chromium-temp",
               Put(Put(EmptyMap, "name", "Chromium Temp Profile"),
                   "command", "chromium-browser --temp-profile"))

\* The loop of create_initial_config with `if not default_browser:` in the
\* firefox branch too: the browser probed first gives the default.
RECURSIVE ProbeBrowsers_first_wins(_, _)
ProbeBrowsers_first_wins(bs, st) ==
    IF bs = <<>> THEN st
    ELSE LET b == Head(bs) IN
         ProbeBrowsers_first_wins(Tail(bs),
            IF b = "firefox"
            THEN [config |-> FirefoxSections(st.config),
                  default_browser |->
                      IF IsNone(st.default_browser)
                      THEN Some("firefox-private") ELSE st.default_browser]
            ELSE IF b = "chromium-browser"
            THEN [config |-> ChromiumSections(st.config),
                  default_browser |->
                      IF IsNone(st.default_browser)
                      THEN Some("chromium-incognito") ELSE st.default_browser]
            ELSE st)

\* The loop of create_initial_config over webbrowser._browsers:
\* st = [config, default_browser].
RECURSIVE ProbeBrowsers(_, _)
ProbeBrowsers(bs, st) ==
    IF bs = <<>> THEN st
    ELSE LET b == Head(bs) IN
         ProbeBrowsers(Tail(bs),
            IF b = "firefox"
            THEN [config |-> FirefoxSections(st.config),
                  default_browser |-> Some("firefox-private")]
            ELSE IF b = "chromium-browser"
            THEN [config |-> ChromiumSections(st.config),
                  default_browser |->
                      IF IsNone(st.default_browser)
                      THEN Some("chromium-incognito") ELSE st.default_browser]
            ELSE st)

create_initial_config(bs) ==
    LET st == ProbeBrowsers(bs, [config |-> SetSection(EmptyMap, "main", EmptyMap),
                                 default_browser |-> None])
        config == IF ~IsNone(st.default_browser)
                  THEN SetSection(st.config, "main",
                                  Put(EmptyMap, "default_program", The(st.default_browser)))
                  ELSE st.config
    IN WriteConfig(config)

\* Config.__init__ without the `if not self.has_section('main')` step.
ConfigInit_as_read(f, bs) ==
    LET f1 == IF IsNone(f) THEN create_initial_config(bs) ELSE The(f)
    IN [file |-> Some(f1), cfg |-> ReadConfig(f1)]

\* Config.__init__: [file, cfg] after construction.
ConfigInit(f, bs) ==
    LET f1 == IF IsNone(f) THEN create_initial_config(bs) ELSE The(f)
        c1 == ReadConfig(f1)
    IN [file |-> Some(f1),
        cfg |-> IF "main" \in DOMAIN c1 THEN c1 ELSE SetSection(c1, "main", EmptyMap)]

\* ConfigParser.BOOLEAN_STATES after value.lower(); anything else is a ValueError.
Lower(v) == CASE v = "Yes" -> "yes" [] v = "NO" -> "no" [] OTHER -> v
TrueStrings == {"1", "yes", "true", "on"}
FalseStrings == {"0", "no", "false", "off"}
IsBooleanString(v) == Lower(v) \in TrueStrings \cup FalseStrings

\* read_bool that returns the fallback without storing it.
read_bool_no_repair(c, setting, section, fallback) ==
    IF setting \notin DOMAIN c[section]
    THEN [value |-> fallback, cfg |-> c]
    ELSE IF IsBooleanString(c[section][setting])
    THEN [value |-> Lower(c[section][setting]) \in TrueStrings, cfg |-> c]
    ELSE [value |-> fallback, cfg |-> c]

\* read_bool that also stores the fallback for a setting that is absent.
read_bool_stores_fallback(c, setting, section, fallback) ==
    IF setting \in DOMAIN c[section] /\ IsBooleanString(c[section][setting])
    THEN [value |-> Lower(c[section][setting]) \in TrueStrings, cfg |-> c]
    ELSE [value |-> fallback,
          cfg |-> [c EXCEPT ![section] =
                      Put(@, setting, IF fallback THEN "yes" ELSE "no")]]

\* Config.read_bool: [value, cfg] after the call.
read_bool(c, setting, section, fallback) ==
    IF setting \notin DOMAIN c[section]
    THEN [value |-> fallback, cfg |-> c]
    ELSE IF IsBooleanString(c[section][setting])
    THEN [value |-> Lower(c[section][setting]) \in TrueStrings, cfg |-> c]
    ELSE [value |-> fallback,
          cfg |-> [c EXCEPT ![section] =
                      Put(@, setting, IF fallback THEN "yes" ELSE "no")]]

\* Config.save
save(c) == WriteConfig(c)

\* write_bool that saves before it sets.
write_bool_save_first(c, setting, value, section) ==
    [cfg |-> [c EXCEPT ![section] = Put(@, setting, value)], file |-> Some(save(c))]

\* Config.write_bool: [cfg, file] after the call.
write_bool(c, setting, value, section) ==
    LET c1 == [c EXCEPT ![section] = Put(@, setting, value)]
    IN [cfg |-> c1, file |-> Some(save(c1))]

-----------------------------------------------------------------------------
(* Texts and the URL cleaner (uroute/url.py, Uroute.clean_url) *)

UrlStarts == {"https://example.com/", "https://t.co/", "https://real.site/page"}
TrackingParams == {"utm_source=x"}
RedirectParam == "redirect="
ProseTokens == {"check this out", "cool right?", "no link here"}

U_plain == <<"https://example.com/", "id=5">>
U_track == <<"https://example.com/", "utm_source=x", "id=5">>
U_redirect == <<"https://t.co/", "redirect=", "https://real.site/page">>
T_prose_url == <<"check this out", "https://example.com/", "utm_source=x", "cool right?">>
T_prose == <<"no link here">>

LooksLikeUrl(t) == t # <<>> /\ t[1] \in UrlStarts

\* How many nested redirect wrappers the cleaner unwraps.
MaxUnwrap == 3

IsTarget(u, i) == i > 1 /\ u[i - 1] = RedirectParam /\ u[i] \in UrlStarts
HasTarget(u) == \E i \in 1..Len(u) : IsTarget(u, i)
FirstTarget(u) == CHOOSE i \in 1..Len(u) :
                     IsTarget(u, i) /\ \A j \in 1..(i - 1) : ~IsTarget(u, j)
NotTracking(tok) == tok \notin TrackingParams

RECURSIVE Unwrap(_, _)
Unwrap(u, n) ==
    IF n = 0 \/ ~HasTarget(u) THEN u
    ELSE Unwrap(SubSeq(u, FirstTarget(u), Len(u)), n - 1)

clean_url(u) ==
    IF LooksLikeUrl(u) THEN SelectSeq(Unwrap(u, MaxUnwrap), NotTracking) ELSE u

\* The URL-shaped substring that starts at token i: up to the next prose token.
RECURSIVE UrlFrom(_, _)
UrlFrom(t, i) ==
    IF i > Len(t) \/ t[i] \in ProseTokens THEN <<>>
    ELSE <<t[i]>> \o UrlFrom(t, i + 1)

extract_url(t) ==
    IF \E i \in 1..Len(t) : t[i] \in UrlStarts
    THEN LET i == CHOOSE i \in 1..Len(t) :
                     t[i] \in UrlStarts /\ \A j \in 1..(i - 1) : t[j] \notin UrlStarts
         IN Some(UrlFrom(t, i))
    ELSE None

-----------------------------------------------------------------------------
(* The orchestrator (uroute/core.py) *)

ProgramKeys == {"firefox", "firefox-private", "chromium", "chromium-incognito",
                "chromium-temp"}
SectionOf(k) == CASE k = "firefox" -> "program:firefox"
                  [] k = "firefox-private" -> "program:firefox-private"
                  [] k = "chromium" -> "program:chromium"
                  [] k = "chromium-incognito" -> "program:chromium-incognito"
                  [] k = "chromium-temp" -> "program:chromium-temp"

\* Uroute.programs: one record per `program:<key>` section.
LoadPrograms(c) ==
    [k \in {x \in ProgramKeys : SectionOf(x) \in DOMAIN c} |->
        [name |-> c[SectionOf(k)]["name"], command |-> c[SectionOf(k)]["command"]]]

\* Uroute.get_program(): the results it may yield.  The program of the
\* preselection key, else the configured default, else None when no program is
\* configured; what it yields when programs exist but neither names one is
\* not specified.
get_program(progs, c, preferred) ==
    IF DOMAIN progs = {} THEN {None}
    ELSE IF ~IsNone(preferred) /\ The(preferred) \in DOMAIN progs
    THEN {preferred}
    ELSE IF "default_program" \in DOMAIN c["main"]
            /\ c["main"]["default_program"] \in DOMAIN progs
    THEN {Some(c["main"]["default_program"])}
    ELSE {None} \cup {Some(k) : k \in DOMAIN progs}

-----------------------------------------------------------------------------
(* The window: src/uroute/gui.py *)

\* Python truthiness of an optional text / an optional str.
Truthy(o) == ~IsNone(o) /\ The(o) # <<>>
TruthyStr(o) == ~IsNone(o) /\ The(o) # ""

\* get_clipboard_url: the clipboard holds None or a text.
get_clipboard_url(contents) ==
    IF Truthy(contents) THEN extract_url(The(contents)) ELSE None

\* set_url that records the given URL as the original whenever it cleans,
\* without comparing the cleaned URL with it.
set_url_records_always(url, clean) ==
    LET url0 == IF IsNone(url) THEN <<>> ELSE The(url)
        cleaning == url0 # <<>> /\ clean
        orig == IF cleaning THEN Some(url0) ELSE None
    IN [orig_url |-> orig,
        clean_visible |-> ~Truthy(orig),
        restore_visible |-> Truthy(orig),
        url_entry |-> IF cleaning THEN clean_url(url0) ELSE url0]

\* UrouteGui.set_url: the fields it sets.
set_url(url, clean) ==
    LET url0 == IF IsNone(url) THEN <<>> ELSE The(url)
        cleaned_url == clean_url(url0)
        changed == url0 # <<>> /\ clean /\ cleaned_url # url0
        orig == IF changed THEN Some(url0) ELSE None
    IN [orig_url |-> orig,
        clean_visible |-> ~Truthy(orig),
        restore_visible |-> Truthy(orig),
        url_entry |-> IF changed THEN cleaned_url ELSE url0]

\* _on_browser_icon_selected that fills the command field only while it is empty.
on_browser_icon_selected_if_empty(sel, progs, entry) ==
    IF IsNone(sel) \/ entry # "" THEN entry ELSE progs[The(sel)].command

\* UrouteGui._on_browser_icon_selected: the text of the command field after it.
on_browser_icon_selected(sel, progs, entry) ==
    IF IsNone(sel) THEN entry ELSE progs[The(sel)].command

\* _build_browser_buttons that selects the default program without the call of
\* _on_browser_icon_selected.
build_browser_buttons_no_command(progs, default_program) ==
    [selected |-> IF ~IsNone(default_program) /\ The(default_program) \in DOMAIN progs
                  THEN default_program ELSE None,
     command_entry |-> ""]

\* UrouteGui._build_browser_buttons: the selection and the command field after
\* it, for the default_program that get_program yielded.
build_browser_buttons(progs, default_program) ==
    LET default_itr == IF ~IsNone(default_program)
                          /\ The(default_program) \in DOMAIN progs
                       THEN default_program ELSE None
    IN [selected |-> default_itr,
        command_entry |-> on_browser_icon_selected(default_itr, progs, "")]

\* _on_window_show without the two set_visible calls: show_all has shown
\* both buttons and they stay shown.
on_window_show_no_hack(orig) ==
    [clean_visible |-> TRUE, restore_visible |-> TRUE]

\* UrouteGui._on_window_show
on_window_show(orig) ==
    [clean_visible |-> ~Truthy(orig), restore_visible |-> Truthy(orig)]

-----------------------------------------------------------------------------
(* Inputs *)

\* Command lines: [URL, program].
CliOptions == {[URL |-> None, program |-> None],
               [URL |-> Some(<<>>), program |-> Some("lynx")],
               [URL |-> Some(U_track), program |-> Some("firefox")],
               [URL |-> Some(U_plain), program |-> None],
               [URL |-> None, program |-> Some("firefox")]}
ClipboardContents == {None, Some(<<>>), Some(T_prose), Some(T_prose_url)}
TypedUrls == {<<>>, U_redirect}
TypedCommands == {"", "my-browser"}
Keys == {"Escape", "Return", "a"}

\* The config files a first session may find.
F_default == WriteConfig(FirefoxSections(SetSection(EmptyMap, "main",
                Put(Put(EmptyMap, "default_program", "firefox-private"),
                    "read_url_from_clipboard", "Yes"))))
F_invalid == WriteConfig(FirefoxSections(SetSection(EmptyMap, "main",
                Put(Put(Put(EmptyMap, "default_program", "firefox-private"),
                        "ask_default_browser", "maybe"),
                    "read_url_from_clipboard", "no"))))
F_declined == WriteConfig(FirefoxSections(SetSection(EmptyMap, "main",
                Put(Put(Put(EmptyMap, "default_program", "firefox"),
                        "ask_default_browser", "NO"),
                    "read_url_from_clipboard", "maybe"))))
F_no_main == WriteConfig(FirefoxSections(EmptyMap))
InitialFiles == {F_default, F_invalid, F_declined, F_no_main}

\* The registered browsers a first session without a config file may find.
InitialBrowsers == {<<>>, <<"links", "chromium-browser">>}

NoHist == [cmd_edited |-> FALSE,       \* the command field was typed into since it was last set
           clipboard_url |-> None,     \* what get_clipboard_url returned
           clip_consulted |-> FALSE,   \* get_clipboard_url was called
           clip_notified |-> FALSE,    \* the clipboard notification was shown
           default_program |-> None,   \* what get_program yielded
           ended_by |-> "none",        \* the kind of event that ended the loop: run, cancel
           answer |-> "none",          \* this session's answer to the prompt
           answered_before |-> "none", \* earlier sessions' answers: none, unsaved, saved
           last_set_url |-> "none",    \* the last call of set_url: initial, clipboard, clean, restore
           version_printed |-> FALSE,  \* print('Uroute {}'.format(version)) was executed
           launch |-> "none",          \* what a call of Uroute.run that returned reported: ok, failed
           error |-> "none",           \* where an exception was raised: startup, gui-build, gui-run, launch
           logged |-> "none"]          \* how it was reported: log.exception, traceback

NoCall == [op |-> "none", section |-> "", setting |-> "", arg |-> None,
           ret |-> None, stored |-> None]

-----------------------------------------------------------------------------
(* main(): src/uroute/__main__.py *)

Init ==
    /\ \/ /\ file \in {Some(f) : f \in InitialFiles}
          /\ browsers = <<>>
       \/ /\ file = None
          /\ browsers \in InitialBrowsers
    /\ pc = "start"
    /\ options = [URL |-> None, program |-> None]
    /\ cfg = EmptyMap
    /\ programs = EmptyMap
    /\ command = None
    /\ orig_url = None
    /\ url_entry = <<>>
    /\ command_entry = ""
    /\ selected = None
    /\ clean_visible = FALSE
    /\ restore_visible = FALSE
    /\ prompt = "none"
    /\ result = None
    /\ launched = <<>>
    /\ exit_code = None
    /\ hist = NoHist
    /\ call = NoCall

\* create_argument_parser().parse_args() and the --version branch.
ParseArgs ==
    /\ pc = "start"
    /\ \E o \in CliOptions, version \in BOOLEAN :
          IF version
          THEN /\ pc' = "exit"
               /\ exit_code' = Some(0)
               /\ hist' = [hist EXCEPT !.version_printed = TRUE]
               /\ UNCHANGED options
          ELSE /\ pc' = "parsed"
               /\ options' = o
               /\ UNCHANGED <<exit_code, hist>>
    /\ UNCHANGED <<file, browsers, cfg, programs, command, orig_url, url_entry,
                   command_entry, selected, clean_visible, restore_visible,
                   prompt, result, launched, call>>

\* Uroute(preferred_prog=options.program): loads the Config and the programs.
NewUroute ==
    /\ pc = "parsed"
    /\ LET ci == ConfigInit(file, browsers) IN
          /\ file' = ci.file
          /\ cfg' = ci.cfg
          /\ programs' = LoadPrograms(ci.cfg)
    /\ pc' = "core"
    /\ UNCHANGED <<browsers, options, command, orig_url, url_entry, command_entry,
                   selected, clean_visible, restore_visible, prompt, result,
                   launched, exit_code, hist, call>>

\* Uroute(...) raises (a file-system error in Config.__init__ propagates):
\* the call is outside main()'s try, so the interpreter prints the traceback
\* and ends the process with status 1.
NewUrouteRaises ==
    /\ pc = "parsed"
    /\ pc' = "exit"
    /\ exit_code' = Some(1)
    /\ hist' = [hist EXCEPT !.error = "startup", !.logged = "traceback"]
    /\ UNCHANGED <<file, browsers, options, cfg, programs, command, orig_url,
                   url_entry, command_entry, selected, clean_visible,
                   restore_visible, prompt, result, launched, call>>

\* main()'s `except Exception as error:` with log.exception but no exit(1):
\* the process ends with status 0.
main_except_no_exit(where) ==
    /\ pc' = "exit"
    /\ exit_code' = Some(0)
    /\ hist' = [hist EXCEPT !.error = where, !.logged = "log.exception"]

\* main()'s `except Exception as error: log.exception(str(error)); exit(1)`
\* for an exception raised at `where` inside the try.
main_except(where) ==
    /\ pc' = "exit"
    /\ exit_code' = Some(1)
    /\ hist' = [hist EXCEPT !.error = where, !.logged = "log.exception"]

\* UrouteGui(ur) raises while the window is built.
GuiInitRaises ==
    /\ pc = "core"
    /\ main_except("gui-build")
    /\ UNCHANGED <<file, browsers, options, cfg, programs, command, orig_url,
                   url_entry, command_entry, selected, clean_visible,
                   restore_visible, prompt, result, launched, call>>

\* UrouteGui.run(options.URL) raises before the main loop is entered.
GuiRunRaises ==
    /\ pc = "gui"
    /\ main_except("gui-run")
    /\ UNCHANGED <<file, browsers, options, cfg, programs, command, orig_url,
                   url_entry, command_entry, selected, clean_visible,
                   restore_visible, prompt, result, launched, call>>

\* UrouteGui(ur): __init__ and _build_ui, with _build_browser_buttons.
GuiInit ==
    /\ pc = "core"
    /\ \E default_program \in get_program(programs, cfg, options.program) :
          LET b == build_browser_buttons(programs, default_program)
          IN /\ selected' = b.selected
             /\ command_entry' = b.command_entry
             /\ hist' = [hist EXCEPT !.default_program = default_program]
    /\ command' = None
    /\ orig_url' = None
    /\ url_entry' = <<>>
    /\ clean_visible' = FALSE
    /\ restore_visible' = FALSE
    /\ pc' = "gui"
    /\ UNCHANGED <<file, browsers, options, cfg, programs, prompt, result,
                   launched, exit_code, call>>

\* _check_clipboard_url that does not read the read_url_from_clipboard flag.
check_clipboard_url_ignores_flag(s1, c, contents) ==
    LET consulted == s1.url_entry = <<>>
        clipboard_url == IF consulted THEN get_clipboard_url(contents) ELSE None
        used == Truthy(clipboard_url)
    IN [set |-> IF used THEN set_url(clipboard_url, TRUE) ELSE s1,
        cfg |-> c, consulted |-> consulted, clipboard_url |-> clipboard_url,
        used |-> used]

\* UrouteGui._check_clipboard_url after set_url(url):
\* [set, cfg, consulted, clipboard_url, used].
check_clipboard_url(s1, c, contents) ==
    LET empty == s1.url_entry = <<>>
        rb == IF empty THEN read_bool(c, "read_url_from_clipboard", "main", TRUE)
              ELSE [value |-> FALSE, cfg |-> c]
        consulted == empty /\ rb.value
        clipboard_url == IF consulted THEN get_clipboard_url(contents) ELSE None
        used == Truthy(clipboard_url)
    IN [set |-> IF used THEN set_url(clipboard_url, TRUE) ELSE s1,
        cfg |-> rb.cfg, consulted |-> consulted, clipboard_url |-> clipboard_url,
        used |-> used]

\* _check_default_browser that shows the prompt whatever the flag reads.
check_default_browser_always(c) ==
    [shown |-> TRUE, cfg |-> read_bool(c, "ask_default_browser", "main", TRUE).cfg]

\* UrouteGui._check_default_browser: [shown, cfg].
check_default_browser(c) ==
    LET rb == read_bool(c, "ask_default_browser", "main", TRUE)
    IN [shown |-> rb.value, cfg |-> rb.cfg]

\* UrouteGui.run(options.URL) up to the call of Gtk.main(): set_url,
\* _check_clipboard_url, show_all (which shows both buttons and then emits
\* `show`, handled by _on_window_show), _check_default_browser.
GuiRun ==
    /\ pc = "gui"
    /\ \E contents \in ClipboardContents :
          LET s1 == set_url(options.URL, TRUE)
              cc == check_clipboard_url(s1, cfg, contents)
              shown == on_window_show(cc.set.orig_url)
              cd == check_default_browser(cc.cfg)
          IN /\ orig_url' = cc.set.orig_url
             /\ url_entry' = cc.set.url_entry
             /\ clean_visible' = shown.clean_visible
             /\ restore_visible' = shown.restore_visible
             /\ cfg' = cd.cfg
             /\ prompt' = IF cd.shown THEN "open" ELSE "none"
             /\ hist' = [hist EXCEPT !.clip_consulted = cc.consulted,
                                     !.clipboard_url = cc.clipboard_url,
                                     !.clip_notified = cc.used,
                                     !.last_set_url = IF cc.used THEN "clipboard"
                                                      ELSE "initial"]
    /\ pc' = "loop"
    /\ UNCHANGED <<file, browsers, options, programs, command, command_entry,
                   selected, result, launched, exit_code, call>>

-----------------------------------------------------------------------------
(* Events handled inside Gtk.main() *)

\* The selection of the icon view changes (a click on an icon or on the
\* background): selection-changed calls _on_browser_icon_selected.
SelectionChanged ==
    /\ pc = "loop"
    /\ \E sel \in {None} \cup {Some(k) : k \in DOMAIN programs} :
          /\ sel # selected
          /\ selected' = sel
          /\ command_entry' = on_browser_icon_selected(sel, programs, command_entry)
          /\ hist' = [hist EXCEPT !.cmd_edited = IF IsNone(sel) THEN @ ELSE FALSE]
    /\ UNCHANGED <<file, browsers, pc, options, cfg, programs, command, orig_url,
                   url_entry, clean_visible, restore_visible, prompt, result,
                   launched, exit_code, call>>

\* The user types into the command field.
EditCommand ==
    /\ pc = "loop"
    /\ \E text \in TypedCommands :
          /\ text # command_entry
          /\ command_entry' = text
    /\ hist' = [hist EXCEPT !.cmd_edited = TRUE]
    /\ UNCHANGED <<file, browsers, pc, options, cfg, programs, command, orig_url,
                   url_entry, selected, clean_visible, restore_visible, prompt,
                   result, launched, exit_code, call>>

\* The user types into the URL field.
EditUrl ==
    /\ pc = "loop"
    /\ \E text \in TypedUrls :
          /\ text # url_entry
          /\ url_entry' = text
    /\ UNCHANGED <<file, browsers, pc, options, cfg, programs, command, orig_url,
                   command_entry, selected, clean_visible, restore_visible, prompt,
                   result, launched, exit_code, hist, call>>

\* UrouteGui._on_clean_url_clicked
on_clean_url_clicked ==
    /\ pc = "loop"
    /\ clean_visible
    /\ LET s == set_url(Some(url_entry), TRUE) IN
          /\ orig_url' = s.orig_url
          /\ url_entry' = s.url_entry
          /\ clean_visible' = s.clean_visible
          /\ restore_visible' = s.restore_visible
    /\ hist' = [hist EXCEPT !.last_set_url = "clean"]
    /\ UNCHANGED <<file, browsers, pc, options, cfg, programs, command,
                   command_entry, selected, prompt, result, launched, exit_code, call>>

\* _on_restore_orig_url that leaves set_url's `clean` at its default, True.
on_restore_orig_url_cleans ==
    /\ pc = "loop"
    /\ restore_visible
    /\ LET s == set_url(orig_url, TRUE) IN
          /\ orig_url' = s.orig_url
          /\ url_entry' = s.url_entry
          /\ clean_visible' = s.clean_visible
          /\ restore_visible' = s.restore_visible
    /\ hist' = [hist EXCEPT !.last_set_url = "restore"]
    /\ UNCHANGED <<file, browsers, pc, options, cfg, programs, command,
                   command_entry, selected, prompt, result, launched, exit_code, call>>

\* UrouteGui._on_restore_orig_url
on_restore_orig_url ==
    /\ pc = "loop"
    /\ restore_visible
    /\ LET s == set_url(orig_url, FALSE) IN
          /\ orig_url' = s.orig_url
          /\ url_entry' = s.url_entry
          /\ clean_visible' = s.clean_visible
          /\ restore_visible' = s.restore_visible
    /\ hist' = [hist EXCEPT !.last_set_url = "restore"]
    /\ UNCHANGED <<file, browsers, pc, options, cfg, programs, command,
                   command_entry, selected, prompt, result, launched, exit_code, call>>

\* _on_run_clicked that captures the selected program's command, not the field.
on_run_clicked_selected(entry) ==
    IF IsNone(selected) THEN Some(entry) ELSE Some(programs[The(selected)].command)

\* UrouteGui._on_run_clicked: the command it captures; hide() and
\* Gtk.main_quit() end the loop.
on_run_clicked(entry) == Some(entry)

\* _on_cancel_clicked that captures the command field as _on_run_clicked does.
on_cancel_clicked_captures == Some(command_entry)

\* UrouteGui._on_cancel_clicked: the command it leaves.
on_cancel_clicked == None

\* The end of a handler that also takes leaving with the default-browser
\* prompt still open for a No: write_bool('ask_default_browser', 'no').
EndLoop_declines(cmd, kind) ==
    /\ pc = "loop"
    /\ command' = cmd
    /\ pc' = "ended"
    /\ hist' = [hist EXCEPT !.ended_by = kind]
    /\ IF prompt = "open"
       THEN LET w == write_bool(cfg, "ask_default_browser", "no", "main") IN
               /\ cfg' = w.cfg
               /\ file' = w.file
       ELSE UNCHANGED <<cfg, file>>
    /\ UNCHANGED <<browsers, options, programs, orig_url, url_entry,
                   command_entry, selected, clean_visible, restore_visible, prompt,
                   result, launched, exit_code, call>>

\* The end of a handler that calls hide() and Gtk.main_quit(); `kind` is what
\* the user did: "run" (Run button, Return, double-click) or "cancel" (Cancel
\* button, Escape, closing the window).
EndLoop(cmd, kind) ==
    /\ pc = "loop"
    /\ command' = cmd
    /\ pc' = "ended"
    /\ hist' = [hist EXCEPT !.ended_by = kind]
    /\ UNCHANGED <<file, browsers, options, cfg, programs, orig_url, url_entry,
                   command_entry, selected, clean_visible, restore_visible, prompt,
                   result, launched, exit_code, call>>

\* The Run button is clicked.
RunButton == EndLoop(on_run_clicked(command_entry), "run")

\* UrouteGui._on_browser_icon_activated: a double-click on an icon.
on_browser_icon_activated == EndLoop(on_run_clicked(command_entry), "run")

\* The Cancel button is clicked.
CancelButton == EndLoop(on_cancel_clicked, "cancel")

\* The window is closed: `destroy` is connected to _on_cancel_clicked.
WindowDestroy == EndLoop(on_cancel_clicked, "cancel")

\* UrouteGui._on_key_pressed
on_key_pressed ==
    \E keyval \in Keys :
       IF keyval = "Escape" THEN EndLoop(on_cancel_clicked, "cancel")
       ELSE IF keyval = "Return" THEN EndLoop(on_run_clicked(command_entry), "run")
       ELSE pc = "loop" /\ UNCHANGED vars

\* The `Yes` action of the default-browser notification: set_default_browser.
\* Uroute.set_as_default_browser() succeeds or fails.
set_default_browser ==
    /\ pc = "loop"
    /\ prompt = "open"
    /\ prompt' = "closed"
    /\ \E ok \in BOOLEAN :
          IF ok
          THEN LET w == write_bool(cfg, "ask_default_browser", "no", "main") IN
                  /\ cfg' = w.cfg
                  /\ file' = w.file
                  /\ hist' = [hist EXCEPT !.answer = "yes-ok"]
          ELSE /\ UNCHANGED <<cfg, file>>
               /\ hist' = [hist EXCEPT !.answer = "yes-failed"]
    /\ UNCHANGED <<browsers, pc, options, programs, command, orig_url, url_entry,
                   command_entry, selected, clean_visible, restore_visible, result,
                   launched, exit_code, call>>

\* The `No` action of the default-browser notification.
dont_set_default_browser ==
    /\ pc = "loop"
    /\ prompt = "open"
    /\ prompt' = "closed"
    /\ LET w == write_bool(cfg, "ask_default_browser", "no", "main") IN
          /\ cfg' = w.cfg
          /\ file' = w.file
    /\ hist' = [hist EXCEPT !.answer = "no"]
    /\ UNCHANGED <<browsers, pc, options, programs, command, orig_url, url_entry,
                   command_entry, selected, clean_visible, restore_visible, result,
                   launched, exit_code, call>>

-----------------------------------------------------------------------------
(* After the loop *)

\* How a call of Uroute.run(command, url) can end: the process was started,
\* the failure to start it was reported by the return value, or it raised.
LaunchOutcomes == {"ok", "failed", "raised"}

\* main() with `if command is not None:` in place of `if command:`.
Dispatch_if_not_none ==
    /\ pc = "ended"
    /\ result' = Some(<<command, url_entry>>)
    /\ IF ~IsNone(command)
       THEN /\ launched' = Append(launched, <<The(command), url_entry>>)
            /\ \E outcome \in LaunchOutcomes :
                  IF outcome = "raised"
                  THEN main_except("launch")
                  ELSE /\ pc' = "exit"
                       /\ exit_code' = Some(0)
                       /\ hist' = [hist EXCEPT !.launch = outcome]
       ELSE /\ launched' = launched
            /\ pc' = "exit"
            /\ exit_code' = Some(0)
            /\ hist' = hist
    /\ UNCHANGED <<file, browsers, options, cfg, programs, command, orig_url,
                   url_entry, command_entry, selected, clean_visible,
                   restore_visible, prompt, call>>

\* Gtk.main() has returned: UrouteGui.run returns (self.command, self.url) and
\* main() goes on: `if command: ur.run(command, url)`, whose return value is
\* dropped; then the process ends, with status 0 unless ur.run raised.
Dispatch ==
    /\ pc = "ended"
    /\ result' = Some(<<command, url_entry>>)
    /\ IF TruthyStr(command)
       THEN /\ launched' = Append(launched, <<The(command), url_entry>>)
            /\ \E outcome \in LaunchOutcomes :
                  IF outcome = "raised"
                  THEN main_except("launch")
                  ELSE /\ pc' = "exit"
                       /\ exit_code' = Some(0)
                       /\ hist' = [hist EXCEPT !.launch = outcome]
       ELSE /\ launched' = launched
            /\ pc' = "exit"
            /\ exit_code' = Some(0)
            /\ hist' = hist
    /\ UNCHANGED <<file, browsers, options, cfg, programs, command, orig_url,
                   url_entry, command_entry, selected, clean_visible,
                   restore_visible, prompt, call>>

\* The program is started again later, with the config file as it was left.
NextSession ==
    /\ pc = "exit"
    /\ pc' = "start"
    /\ options' = [URL |-> None, program |-> None]
    /\ cfg' = EmptyMap
    /\ programs' = EmptyMap
    /\ command' = None
    /\ orig_url' = None
    /\ url_entry' = <<>>
    /\ command_entry' = ""
    /\ selected' = None
    /\ clean_visible' = FALSE
    /\ restore_visible' = FALSE
    /\ prompt' = "none"
    /\ result' = None
    /\ launched' = <<>>
    /\ exit_code' = None
    /\ hist' = [NoHist EXCEPT !.answered_before =
                   IF hist.answer \in {"no", "yes-ok"} \/ hist.answered_before = "saved"
                   THEN "saved"
                   ELSE IF hist.answer = "yes-failed" THEN "unsaved"
                   ELSE hist.answered_before]
    /\ UNCHANGED <<file, browsers, call>>

Next ==
    \/ ParseArgs
    \/ NewUroute
    \/ NewUrouteRaises
    \/ GuiInit
    \/ GuiInitRaises
    \/ GuiRun
    \/ GuiRunRaises
    \/ SelectionChanged
    \/ EditCommand
    \/ EditUrl
    \/ on_clean_url_clicked
    \/ on_restore_orig_url
    \/ RunButton
    \/ on_browser_icon_activated
    \/ CancelButton
    \/ WindowDestroy
    \/ on_key_pressed
    \/ set_default_browser
    \/ dont_set_default_browser
    \/ Dispatch
    \/ NextSession

Spec == Init /\ [][Next]_vars

-----------------------------------------------------------------------------
(* The Config on its own: calls of read_bool and write_bool with any        *)
(* arguments on a constructed Config, and a later Config(filename) on the   *)
(* file they leave.                                                         *)

ConfigCalls == {[section |-> "main", setting |-> "ask_default_browser"],
                [section |-> "main", setting |-> "read_url_from_clipboard"],
                [section |-> "program:firefox", setting |-> "ask_default_browser"]}
WrittenValues == {"no", "yes", "maybe"}

Stored(c, section, setting) ==
    IF setting \in DOMAIN c[section] THEN Some(c[section][setting]) ELSE None

InitConfig ==
    /\ browsers \in InitialBrowsers
    /\ \E f \in {None} \cup {Some(x) : x \in InitialFiles} :
          /\ file = ConfigInit(f, browsers).file
          /\ cfg = ConfigInit(f, browsers).cfg
    /\ pc = "core"
    /\ options = [URL |-> None, program |-> None]
    /\ programs = LoadPrograms(cfg)
    /\ command = None
    /\ orig_url = None
    /\ url_entry = <<>>
    /\ command_entry = ""
    /\ selected = None
    /\ clean_visible = FALSE
    /\ restore_visible = FALSE
    /\ prompt = "none"
    /\ result = None
    /\ launched = <<>>
    /\ exit_code = None
    /\ hist = NoHist
    /\ call = NoCall

ConfigFrame == UNCHANGED <<browsers, pc, options, programs, command, orig_url,
                           url_entry, command_entry, selected, clean_visible,
                           restore_visible, prompt, result, launched, exit_code, hist>>

\* config.read_bool(setting, section, fallback)
ConfigReadBool ==
    /\ \E a \in ConfigCalls, fallback \in BOOLEAN :
          /\ a.section \in DOMAIN cfg
          /\ LET rb == read_bool(cfg, a.setting, a.section, fallback) IN
                /\ cfg' = rb.cfg
                /\ call' = [op |-> "read_bool", section |-> a.section,
                            setting |-> a.setting, arg |-> Some(fallback),
                            ret |-> Some(rb.value),
                            stored |-> Stored(cfg, a.section, a.setting)]
    /\ UNCHANGED file
    /\ ConfigFrame

\* config.write_bool(setting, value, section)
ConfigWriteBool ==
    /\ \E a \in ConfigCalls, value \in WrittenValues :
          /\ a.section \in DOMAIN cfg
          /\ LET w == write_bool(cfg, a.setting, value, a.section) IN
                /\ cfg' = w.cfg
                /\ file' = w.file
                /\ call' = [op |-> "write_bool", section |-> a.section,
                            setting |-> a.setting, arg |-> Some(value),
                            ret |-> None,
                            stored |-> Stored(cfg, a.section, a.setting)]
    /\ ConfigFrame

\* Config(filename) in a later session, on the file as it was left.
ConfigReload ==
    /\ LET ci == ConfigInit(file, browsers) IN
          /\ file' = ci.file
          /\ cfg' = ci.cfg
    /\ call' = [NoCall EXCEPT !.op = "Config"]
    /\ ConfigFrame

NextConfig ==
    \/ ConfigReadBool
    \/ ConfigWriteBool
    \/ ConfigReload

SpecConfig == InitConfig /\ [][NextConfig]_vars

-----------------------------------------------------------------------------
(* The first Config(filename), when no config file exists yet, for any      *)
(* registered browsers in any order.                                        *)

BrowserNames == {"firefox", "chromium-browser", "links", "lynx", "google-chrome"}

\* webbrowser._browsers: a dict, so no name twice, in registration order.
RegisteredBrowsers ==
    {bs \in UNION {[1..n -> BrowserNames] : n \in 0..Cardinality(BrowserNames)} :
        \A i, j \in 1..Len(bs) : i # j => bs[i] # bs[j]}

InitCreate ==
    /\ file = None
    /\ browsers \in RegisteredBrowsers
    /\ pc = "parsed"
    /\ options = [URL |-> None, program |-> None]
    /\ cfg = EmptyMap
    /\ programs = EmptyMap
    /\ command = None
    /\ orig_url = None
    /\ url_entry = <<>>
    /\ command_entry = ""
    /\ selected = None
    /\ clean_visible = FALSE
    /\ restore_visible = FALSE
    /\ prompt = "none"
    /\ result = None
    /\ launched = <<>>
    /\ exit_code = None
    /\ hist = NoHist
    /\ call = NoCall

NextCreate == ConfigReload

SpecCreate == InitCreate /\ [][NextCreate]_vars

-----------------------------------------------------------------------------
(* The URL field on its own: the window is open with any text in the URL    *)
(* field, and Clean and Restore are pressed.                                 *)

SimpleParams == {<<>>, <<"id=5">>, <<"utm_source=x">>, <<"utm_source=x", "id=5">>,
                 <<"id=5", "utm_source=x">>}

\* URLs whose redirect wrappers are nested at most n deep.
RECURSIVE Urls(_)
Urls(n) ==
    LET flat == {<<s>> \o p : s \in UrlStarts, p \in SimpleParams}
    IN IF n = 0 THEN flat
       ELSE flat \cup {<<s>> \o p \o <<RedirectParam>> \o v :
                          s \in UrlStarts, p \in {<<>>, <<"utm_source=x">>},
                          v \in Urls(n - 1)}

\* The texts the URL field may hold: URLs nested up to the unwrap bound, and
\* texts that are no URL.
FieldTexts == Urls(MaxUnwrap) \cup {<<>>, T_prose, T_prose_url}

InitClean ==
    /\ file = Some(F_default)
    /\ browsers = <<>>
    /\ pc = "loop"
    /\ options = [URL |-> None, program |-> None]
    /\ cfg = ConfigInit(file, browsers).cfg
    /\ programs = LoadPrograms(cfg)
    /\ command = None
    /\ orig_url = None
    /\ url_entry \in FieldTexts
    /\ command_entry = ""
    /\ selected = None
    /\ clean_visible = TRUE
    /\ restore_visible = FALSE
    /\ prompt = "none"
    /\ result = None
    /\ launched = <<>>
    /\ exit_code = None
    /\ hist = NoHist
    /\ call = NoCall

NextClean ==
    \/ on_clean_url_clicked
    \/ on_restore_orig_url

SpecClean == InitClean /\ [][NextClean]_vars

-----------------------------------------------------------------------------
(* Properties *)

\* What a new Config would find stored in the file for a setting.
FileStored(section, setting) ==
    LET c == ReadConfig(The(file))
    IN IF section \in DOMAIN c THEN Stored(c, section, setting) ELSE None

\* read_bool(setting) of the main section would return TRUE (fallback TRUE).
ReadsTrue(c, setting) ==
    \/ setting \notin DOMAIN c["main"]
    \/ ~IsBooleanString(c["main"][setting])
    \/ Lower(c["main"][setting]) \in TrueStrings

\* C1: when the loop is ended by a cancel event (Cancel button, closing the
\* window, Escape), the command is None whatever was selected or typed,
\* UrouteGui.run returns None as the command, and main launches nothing.
C1_CancelReturnsNone ==
    hist.ended_by = "cancel" =>
        /\ command = None
        /\ launched = <<>>
        /\ pc = "exit" => result = Some(<<None, url_entry>>)

C1_Witness ==
    /\ pc = "exit"
    /\ hist.ended_by = "cancel"
    /\ ~IsNone(selected)
    /\ command_entry = "my-browser"
    /\ result = Some(<<None, url_entry>>)

\* C2: when the loop is ended by a run event (Run button, Return, double-click),
\* the captured command is the text of the command field and UrouteGui.run
\* returns exactly the texts of the command field and of the URL field,
\* manual edits included.
C2_RunReturnsFields ==
    hist.ended_by = "run" =>
        /\ command = Some(command_entry)
        /\ pc = "exit" => result = Some(<<Some(command_entry), url_entry>>)

C2_Witness ==
    /\ pc = "exit"
    /\ hist.ended_by = "run"
    /\ hist.cmd_edited
    /\ ~IsNone(selected)
    /\ command_entry = "my-browser"
    /\ url_entry = U_redirect
    /\ result = Some(<<Some("my-browser"), U_redirect>>)

\* C3: Uroute.run(command, url) is called only once the loop has ended, at most
\* once, exactly once with the captured command and URL when the captured
\* command is a non-empty text, and not at all after a cancel or after a run
\* with an empty command field.
C3_LaunchOnceIffCommand ==
    /\ pc # "exit" => launched = <<>>
    /\ Len(launched) <= 1
    /\ (pc = "exit" /\ ~IsNone(result)) =>
          launched = IF ~IsNone(command) /\ The(command) # ""
                     THEN << <<The(command), url_entry>> >> ELSE <<>>
    /\ hist.ended_by = "cancel" => launched = <<>>
    /\ (hist.ended_by = "run" /\ command_entry = "") => launched = <<>>
    /\ (pc = "exit" /\ hist.ended_by = "run" /\ command_entry # "") =>
          launched = << <<command_entry, url_entry>> >>

C3_Witness ==
    /\ pc = "exit"
    /\ hist.ended_by = "run"
    /\ launched = << <<"firefox --private-window", <<"https://real.site/page">> >> >>

\* C4 as stated: after any answer to the default-browser prompt, also a Yes
\* for which set_as_default_browser failed, no later session shows the prompt.
C4_NoPromptAfterAnyAnswer ==
    hist.answered_before \in {"saved", "unsaved"} => prompt = "none"

\* C4 as amended: the prompt is shown only while the ask_default_browser flag reads
\* true; a No answer, and a Yes answer for which set_as_default_browser
\* succeeds, store the flag as `no` in memory and in the file, and no later
\* session shows the prompt; a Yes answer for which it fails leaves the flag
\* reading true.
C4_NoPromptAfterSavedAnswer ==
    /\ prompt = "open" => ReadsTrue(cfg, "ask_default_browser")
    /\ hist.answer \in {"no", "yes-ok"} =>
          /\ prompt = "closed"
          /\ cfg["main"]["ask_default_browser"] = "no"
          /\ FileStored("main", "ask_default_browser") = Some("no")
    /\ hist.answer = "yes-failed" =>
          /\ prompt = "closed"
          /\ ReadsTrue(cfg, "ask_default_browser")
    /\ hist.answered_before = "saved" =>
          /\ prompt = "none"
          /\ FileStored("main", "ask_default_browser") = Some("no")

C4_Witness ==
    /\ pc = "loop"
    /\ hist.answered_before = "saved"
    /\ prompt = "none"

\* The stored value a read_bool call found was not a boolean string.
ReadInvalid ==
    /\ call.op = "read_bool"
    /\ ~IsNone(call.stored)
    /\ ~IsBooleanString(The(call.stored))

Canonical(b) == IF b THEN "yes" ELSE "no"

\* C5: read_bool on a stored value that is no boolean string returns the given
\* default and stores `yes` (default true) or `no` (default false) in its
\* place; a second read_bool returns the same value, whatever its default,
\* and changes nothing.
C5_ReadBoolRepairs ==
    ReadInvalid =>
        /\ call.ret = call.arg
        /\ cfg[call.section][call.setting] = Canonical(The(call.arg))
        /\ \A fallback \in BOOLEAN :
              LET again == read_bool(cfg, call.setting, call.section, fallback)
              IN again.value = The(call.ret) /\ again.cfg = cfg

C5_Witness ==
    /\ ReadInvalid
    /\ call.stored = Some("maybe")
    /\ call.arg = Some(FALSE)
    /\ call.ret = Some(FALSE)
    /\ cfg[call.section][call.setting] = "no"

\* C6: once read_bool has repaired a stored value that is no boolean string,
\* the config file holds the repaired value.
C6_RepairIsInFile ==
    ReadInvalid =>
        FileStored(call.section, call.setting) = Some(Canonical(The(call.arg)))

\* C7: a write_bool(setting, value, section) step leaves value stored for the
\* setting in memory, every other setting of every section as it was, and
\* the file holding exactly the in-memory config.
C7_WriteBoolPersists ==
    [][call'.op = "write_bool" =>
          /\ cfg'[call'.section][call'.setting] = The(call'.arg)
          /\ Stored(ReadConfig(The(file')), call'.section, call'.setting) = call'.arg
          /\ ReadConfig(The(file')) = cfg'
          /\ The(file') = WriteConfig(cfg')
          /\ DOMAIN cfg' = DOMAIN cfg
          /\ \A s \in DOMAIN cfg :
                /\ DOMAIN cfg'[s] = (DOMAIN cfg[s]) \cup
                      (IF s = call'.section THEN {call'.setting} ELSE {})
                /\ \A k \in DOMAIN cfg[s] :
                      (s # call'.section \/ k # call'.setting) => cfg'[s][k] = cfg[s][k]
      ]_vars

\* A write_bool has replaced a stored value that was no boolean string, with
\* another setting stored beside it.
C7_Witness ==
    /\ call.op = "write_bool"
    /\ call.stored = Some("maybe")
    /\ call.arg = Some("no")
    /\ call.setting = "ask_default_browser"
    /\ call.section = "main"
    /\ cfg["main"]["ask_default_browser"] = "no"
    /\ "read_url_from_clipboard" \in DOMAIN cfg["main"]
    /\ cfg["main"]["read_url_from_clipboard"] = "yes"
    /\ ReadConfig(The(file)) = cfg

\* C8: on entry the URL field holds the (cleaned) command-line URL when that
\* is not empty; the clipboard is consulted only when the field is empty
\* after that and read_url_from_clipboard reads true; the clipboard's URL is
\* put in the field, and notified, only when the clipboard holds one; in
\* every other case the field stays blank and nothing is notified.
C8_UrlPrefill ==
    [][(pc = "gui" /\ pc' = "loop") =>
          LET prefill == clean_url(IF IsNone(options.URL) THEN <<>> ELSE The(options.URL))
              found == hist'.clip_consulted /\ Truthy(hist'.clipboard_url)
          IN /\ prefill # <<>> =>
                   /\ url_entry' = prefill
                   /\ ~hist'.clip_consulted
                   /\ ~hist'.clip_notified
             /\ hist'.clip_consulted =>
                   /\ prefill = <<>>
                   /\ ReadsTrue(cfg, "read_url_from_clipboard")
             /\ found =>
                   /\ url_entry' = clean_url(The(hist'.clipboard_url))
                   /\ hist'.clip_notified
             /\ (prefill = <<>> /\ ~found) =>
                   /\ url_entry' = <<>>
                   /\ ~hist'.clip_notified
      ]_vars

\* The clipboard's URL was used in a session started without a URL.
C8_Witness ==
    /\ pc = "loop"
    /\ IsNone(options.URL)
    /\ hist.clip_consulted
    /\ hist.clip_notified
    /\ hist.clipboard_url = Some(<<"https://example.com/", "utm_source=x">>)
    /\ url_entry = <<"https://example.com/">>

\* C9: once the window is built, the selected program is the one get_program
\* yielded: the program of the --program key when that key is configured,
\* else the configured default program; the command field holds the selected
\* program's command; with no program configured nothing is selected and the
\* command field is empty.
C9_Preselection ==
    pc = "gui" =>
        LET key == options.program
            keyed == ~IsNone(key) /\ The(key) \in DOMAIN programs
            configured == /\ "default_program" \in DOMAIN cfg["main"]
                          /\ cfg["main"]["default_program"] \in DOMAIN programs
        IN /\ selected = hist.default_program
           /\ keyed => selected = key
           /\ (~keyed /\ configured) => selected = Some(cfg["main"]["default_program"])
           /\ ~IsNone(selected) => command_entry = programs[The(selected)].command
           /\ IsNone(selected) => command_entry = ""
           /\ DOMAIN programs = {} => IsNone(selected)

\* A --program key that is not configured: the default program is selected.
C9_Witness ==
    /\ pc = "gui"
    /\ options.program = Some("lynx")
    /\ selected = Some("firefox-private")
    /\ command_entry = "firefox --private-window"

\* C10: at most one program is selected, and as long as the command field was
\* not typed into since the last selection, it holds the command of the
\* selected program.
C10_CommandReflectsSelection ==
    /\ Len(selected) <= 1
    /\ ~IsNone(selected) =>
          /\ The(selected) \in DOMAIN programs
          /\ ~hist.cmd_edited => command_entry = programs[The(selected)].command

\* Another program than the preselected one was selected after the command
\* field had been typed into.
C10_Witness ==
    /\ pc = "loop"
    /\ hist.default_program = Some("firefox-private")
    /\ selected = Some("firefox")
    /\ ~hist.cmd_edited
    /\ command_entry = "firefox"
    /\ url_entry = U_redirect

\* C11: when Uroute.run reports by its return value that the command could
\* not be launched, main logs the failure and the process exits with code 1.
C11_LaunchFailureExitsOne ==
    (pc = "exit" /\ hist.launch = "failed") =>
        /\ exit_code = Some(1)
        /\ hist.logged # "none"

CleanedTexts == {clean_url(u) : u \in FieldTexts}

Registered(b) == \E i \in 1..Len(browsers) : browsers[i] = b

\* C14: the config file synthesized when none exists names as
\* main.default_program firefox-private whenever firefox is registered, else
\* chromium-incognito when chromium-browser is, in whatever order the
\* browsers are probed, and nothing when neither is; the program section of
\* the default it names is in the same file, and the Config holds what the
\* file holds.
C14_SynthesizedDefault ==
    [][(IsNone(file) /\ ~IsNone(file')) =>
          LET c == ReadConfig(The(file')) IN
             /\ "main" \in DOMAIN c
             /\ Stored(c, "main", "default_program") =
                   IF Registered("firefox") THEN Some("firefox-private")
                   ELSE IF Registered("chromium-browser") THEN Some("chromium-incognito")
                   ELSE None
             /\ \A k \in ProgramKeys :
                   Stored(c, "main", "default_program") = Some(k) =>
                      SectionOf(k) \in DOMAIN c
             /\ cfg' = c]_vars

\* chromium-browser was probed before firefox and the default is firefox-private.
C14_Witness ==
    /\ browsers = <<"links", "chromium-browser", "firefox">>
    /\ ~IsNone(file)
    /\ FileStored("main", "default_program") = Some("firefox-private")
    /\ "program:firefox-private" \in DOMAIN cfg
    /\ "program:chromium-incognito" \in DOMAIN cfg

\* The URL a set_url(url, clean=True) was called with changes when cleaned.
CleaningChanges(u) == u # <<>> /\ clean_url(u) # u

\* C15: once the window has been shown, and after every later set_url,
\* exactly one of Clean and Restore is visible, Restore exactly when an
\* original URL is recorded; and an original URL is recorded exactly when the
\* last set_url (pre-fill from the command line or the clipboard, Clean,
\* Restore) was asked to clean a non-empty URL and cleaning changed it.
C15_OneButtonVisible ==
    /\ [](hist.last_set_url # "none" =>
            /\ clean_visible # restore_visible
            /\ restore_visible <=> ~IsNone(orig_url))
    /\ [][/\ on_clean_url_clicked =>
               (~IsNone(orig_url') <=> CleaningChanges(url_entry))
          /\ on_restore_orig_url => IsNone(orig_url')
          /\ (pc = "gui" /\ pc' = "loop") =>
               LET last == IF hist'.clip_notified THEN The(hist'.clipboard_url)
                           ELSE IF IsNone(options.URL) THEN <<>>
                           ELSE The(options.URL)
               IN /\ hist'.last_set_url \in {"initial", "clipboard"}
                  /\ ~IsNone(orig_url') <=> CleaningChanges(last)]_vars

\* Clean was pressed on a typed URL that cleaning changes: Restore is shown.
C15_Witness ==
    /\ pc = "loop"
    /\ hist.last_set_url = "clean"
    /\ orig_url = Some(U_redirect)
    /\ restore_visible
    /\ ~clean_visible

\* C16: a recorded original u is a URL that cleaning changed.  A press of
\* Restore puts exactly u into the URL field, whatever the field holds by
\* then, forgets the original and shows Clean instead of Restore; a press of
\* Clean on u then gives clean_url(u) again, with u recorded as the original
\* and Restore shown.
C16_RestoreRoundTrip ==
    /\ [](~IsNone(orig_url) => CleaningChanges(The(orig_url)))
    /\ [][/\ on_restore_orig_url =>
               /\ url_entry' = The(orig_url)
               /\ IsNone(orig_url')
               /\ clean_visible'
               /\ ~restore_visible'
               /\ LET again == set_url(Some(url_entry'), TRUE) IN
                     /\ again.url_entry = clean_url(The(orig_url))
                     /\ again.orig_url = orig_url
                     /\ again.restore_visible
          /\ (on_clean_url_clicked /\ CleaningChanges(url_entry)) =>
               /\ url_entry' = clean_url(url_entry)
               /\ orig_url' = Some(url_entry)
               /\ restore_visible'
               /\ ~clean_visible']_vars

\* The URL of the command line was cleaned, and Restore has put it back.
C16_Witness ==
    /\ pc = "loop"
    /\ options.URL = Some(U_track)
    /\ hist.last_set_url = "restore"
    /\ url_entry = U_track
    /\ IsNone(orig_url)
    /\ clean_visible
    /\ ~restore_visible

\* A new Config on the file would read ask_default_browser as true.
FileAsks ==
    \/ IsNone(file)
    \/ "main" \notin DOMAIN ReadConfig(The(file))
    \/ ReadsTrue(ReadConfig(The(file)), "ask_default_browser")

\* The loaded Config reads ask_default_browser as true.
ConfigAsks == "main" \in DOMAIN cfg /\ ReadsTrue(cfg, "ask_default_browser")

\* C17: from the moment the prompt is shown, no step other than an answer to
\* it changes the config in memory or the file, so a session that ends with
\* the prompt unanswered leaves the flag reading true in both; nothing
\* between two sessions changes an existing file, and a session that opens
\* the window shows the prompt exactly when the file it found reads the flag
\* as true: the next session asks again.  A flag that reads false, in
\* memory or in the file, never reads true again.
C17_UnansweredAsksAgain ==
    /\ []((prompt = "open" /\ pc = "exit") => (ConfigAsks /\ FileAsks))
    /\ [][/\ (pc \in {"loop", "ended"} /\ hist'.answer = hist.answer) =>
                (cfg' = cfg /\ file' = file)
          /\ (pc \in {"exit", "start", "parsed", "core", "gui"} /\ ~IsNone(file)) =>
                file' = file
          /\ (pc = "gui" /\ pc' = "loop") => (prompt' = "open" <=> FileAsks)
          /\ (file' # file /\ ~FileAsks) => ~FileAsks'
          /\ (cfg' # cfg /\ "main" \in DOMAIN cfg /\ "main" \in DOMAIN cfg'
                /\ ~ConfigAsks) => ~ConfigAsks']_vars

\* A session has ended with the prompt shown and not answered, and the file
\* still holds the flag as it was found.
C17_Witness ==
    /\ pc = "exit"
    /\ prompt = "open"
    /\ hist.ended_by = "cancel"
    /\ hist.answer = "none"
    /\ hist.answered_before = "unsaved"
    /\ FileStored("main", "ask_default_browser") = Some("maybe")
    /\ cfg["main"]["ask_default_browser"] = "yes"

\* C18: a read_bool of a setting that is absent, or that holds a valid
\* boolean string, returns the fallback (absent) or the parsed value (valid)
\* and leaves the config in memory and the file exactly as they were.
C18_ReadBoolNoEffect ==
    [][(call'.op = "read_bool"
          /\ (IsNone(call'.stored) \/ IsBooleanString(The(call'.stored)))) =>
          /\ call'.stored = Stored(cfg, call'.section, call'.setting)
          /\ call'.ret = IF IsNone(call'.stored) THEN call'.arg
                         ELSE Some(Lower(The(call'.stored)) \in TrueStrings)
          /\ cfg' = cfg
          /\ file' = file]_vars

\* read_bool of a setting found neither in memory nor in the file has
\* returned the fallback False, and the setting is still absent from both.
C18_Witness ==
    /\ call.op = "read_bool"
    /\ call.section = "main"
    /\ call.setting = "read_url_from_clipboard"
    /\ IsNone(call.stored)
    /\ call.ret = Some(FALSE)
    /\ Stored(cfg, "main", "read_url_from_clipboard") = None
    /\ FileStored("main", "read_url_from_clipboard") = None

\* C19: a constructed Config has a main section in memory, whether the file
\* was there, with or without a [main] section, or was just synthesized;
\* read_bool and write_bool of the main section find their section.
C19_MainSectionExists ==
    "main" \in DOMAIN cfg

\* A Config loaded from a file that has no [main] section.
C19_Witness ==
    /\ "main" \in DOMAIN cfg
    /\ "main" \notin DOMAIN ReadConfig(The(file))
    /\ call.op = "Config"

====
